---- MODULE Spec2Model ----
(***************************************************************************)
(* The client poller of src/src/App.js: handleSubmit posts a research      *)
(* request, pollForResults polls the status endpoint with a self-          *)
(* rescheduling timer, and the React state (isAnalyzing, results, timer,   *)
(* currentJobId, jobStatus) records what the handlers pass to the setters. *)
(*                                                                         *)
(* JavaScript values: an object is a function from its keys to values; the *)
(* keys "result" and "progress" hold objects (or null), every other key    *)
(* holds a string.  A missing key reads as undefined.                      *)
(***************************************************************************)
EXTENDS Integers, FiniteSets, Sequences, TLC

\* ---------------------------------------------------------------- bounds
\* Number of handleSubmit invocations explored.
MaxSubmits == 2
\* Cap on the elapsed-seconds counter (the code's counter is unbounded).
MaxTimer == 2
\* Longest text typed into the Research Query field.
MaxFieldLen == 2
MaxJobs == 2

\* ------------------------------------------------------------- JS values
null == [isNull |-> TRUE]
undefined == "<undefined>"
nullStr == "<null>"

Truthy(s) == s \notin {undefined, nullStr, ""}

Get(o, k) == IF k \in DOMAIN o THEN o[k] ELSE undefined

\* jobData.result as a condition: undefined and null are falsy, objects truthy.
TruthyObj(o, k) == k \in DOMAIN o /\ o[k] # null

\* { ...a, ...b }
Spread(a, b) ==
  [k \in (DOMAIN a) \cup (DOMAIN b) |-> IF k \in DOMAIN b THEN b[k] ELSE a[k]]

\* ------------------------------------------------------- network inputs
JobIds == {"job-1", "job-2"}

\* Form fields are sequences of characters.  The Research Query field holds
\* any text of blanks and letters; the API key field is empty or holds a key.
Chars == {" ", "a"}

Targets == UNION {[1..n -> Chars] : n \in 0..MaxFieldLen}

ApiKeys == {<<>>, <<"k">>}

\* The required attribute of an input: the form is not submitted while the
\* field's value is the empty string.
Required(value) == Len(value) > 0

\* The body of POST /run-agent.
RunAgentBody(target, apiKey) ==
  [target |-> target, mode |-> "quick", api_key |-> apiKey]

\* Bodies the submission endpoint can answer with.
SubmitBodies ==
  {[job_id |-> j] : j \in JobIds} \cup
  { [job_id |-> ""],
    [error |-> "Target is required"],
    [detail |-> "Unprocessable"],
    [status |-> "success", report |-> "# Report"],
    null }

SubmitResponses == [ok : BOOLEAN, body : SubmitBodies]

\* Result objects a completed job record can carry.
ResultObjects ==
  { [markdown |-> "# Report"],
    [citations |-> "c1"],
    [markdown |-> "# Report", status |-> "failed"] }

\* Bodies the status endpoint can answer with.
PollBodies ==
  { [status |-> "pending"],
    [status |-> "running", progress |-> [stage |-> "running_analysis"]],
    [status |-> "completed", target |-> "Slack"],
    [status |-> "completed", target |-> "Slack", result |-> null],
    [status |-> "failed", error |-> "Agent crashed"],
    [status |-> "failed"],
    [detail |-> "Job not found"],
    null } \cup
  {[status |-> "completed", target |-> "Slack", result |-> r] : r \in ResultObjects}

PollResponses == [ok : BOOLEAN, body : PollBodies]

\* ----------------------------------------------------------------- state
VARIABLES
  mounted,       \* the App component is mounted
  isAnalyzing,   \* useState(false)
  results,       \* useState(null)
  timer,         \* useState(0)
  currentJobId,  \* useState(null)
  jobStatus,     \* useState(null)
  nSubmits,      \* handleSubmit invocations so far
  sub,           \* invocations whose POST /run-agent is in flight
  loop,          \* one pollForResults closure per invocation
  lastSubmit,    \* history: how the latest POST /run-agent ended
  lastPoll,      \* history: how the latest status query ended
  net,           \* history: the latest request issued, and the POSTs so far
  jobs,          \* backend Job Store: identifier -> Job record
  nextId,        \* backend: the identifier the next accepted submission gets
  task,          \* backend: position of each job's background task
  seen,          \* history: the status each reader last observed, per job
  reply,         \* history: the latest synchronous reply of the backend
  rendered       \* history: the agent statuses and indicators drawn last

client == <<mounted, isAnalyzing, results, timer, currentJobId, jobStatus,
           nSubmits, sub, loop, lastSubmit, lastPoll, net>>

backend == <<jobs, nextId, task, seen, reply>>

vars == <<mounted, isAnalyzing, results, timer, currentJobId, jobStatus,
          nSubmits, sub, loop, lastSubmit, lastPoll, net,
          jobs, nextId, task, seen, reply, rendered>>

Invocations == 1..MaxSubmits

\* A pollForResults closure: st is the position of the loop ("none": not
\* started, "timer": a setTimeout(poll) is pending, "fetch": a status query is
\* in flight, "done": poll returned without rescheduling), pollCount is the
\* closure variable, queries counts the status queries issued, delay is the
\* delay (ms) of the pending timer.  A loop that is done has no timer and no
\* reachable closure: only st and jobId remain.
NoLoop == [st |-> "none", jobId |-> nullStr, pollCount |-> 0, queries |-> 0,
           delay |-> 0]

\* Variant: poll schedules another timer before it returns.
DoneLoopKeepsTimer(l) ==
  [st |-> "timer", jobId |-> l.jobId, pollCount |-> l.pollCount,
   queries |-> l.queries, delay |-> 10000]

DoneLoop(l) == [st |-> "done", jobId |-> l.jobId, pollCount |-> 0, queries |-> 0,
                delay |-> 0]

\* History values.  lastSubmit is NoResponse before the first submission, the
\* request body while the POST is in flight,
\* Threw when the fetch or the body parse threw, else the response.  lastPoll
\* names the invocation whose status query was handled last and how the
\* query ended: "ok" (2xx), "http_error" (non-2xx), "throw".
NoResponse == [none |-> TRUE]
Threw == [threw |-> TRUE]
NoPoll == [inv |-> 0, how |-> "none"]
NoRequest == [method |-> "NONE", path |-> "", job |-> nullStr]

\* Backend values.  Identifiers come from a monotonic counter.  A Job Store
\* slot holds NoJob until the identifier is issued and again once the record
\* is deleted.  A background task is "idle" (no job yet), "scheduled" (job
\* pending), "calling" (external research call outstanding), or finished
\* with the outcome of the call; "dropped" once its job is deleted.
BackendIds == 1..MaxJobs
NoJob == [none |-> TRUE]
NoValue == [absent |-> TRUE]
Readers == {"poller"}
NoReply == [op |-> "none"]

\* Nothing drawn yet.
NoRender == [done |-> FALSE]

Live(l) == l.st \in {"timer", "fetch"}

Init ==
  /\ mounted = TRUE
  /\ isAnalyzing = FALSE
  /\ results = null
  /\ timer = 0
  /\ currentJobId = nullStr
  /\ jobStatus = null
  /\ nSubmits = 0
  /\ sub = {}
  /\ loop = [i \in Invocations |-> NoLoop]
  /\ lastSubmit = NoResponse
  /\ lastPoll = NoPoll
  /\ net = [last |-> NoRequest, posts |-> 0]
  /\ jobs = [id \in BackendIds |-> NoJob]
  /\ nextId = 1
  /\ task = [id \in BackendIds |-> "idle"]
  /\ seen = [r \in Readers |-> [id \in BackendIds |-> "none"]]
  /\ reply = NoReply
  /\ rendered = NoRender

\* ------------------------------------------------------- code predicates
maxPolls == 60

\* setTimeout(poll, 2000) in pollForResults, setTimeout(poll, 10000) in poll.
FirstPollDelay == 2000

PollInterval == 10000

\* Variant: the budget test admits one attempt too many.
BudgetLeftOffByOne(pollCount) == pollCount <= maxPolls

BudgetLeft(pollCount) == pollCount < maxPolls

IsCompleted(jobData) ==
  Get(jobData, "status") = "completed" /\ TruthyObj(jobData, "result")

\* Variant: the failed branch tests for a status the backend never sends.
IsFailedWrongLiteral(jobData) == Get(jobData, "status") = "error"

IsFailed(jobData) == Get(jobData, "status") = "failed"

SuccessResult(jobData) ==
  Spread([status |-> "success",
          product_name |-> Get(jobData, "target"),
          report |-> IF Truthy(Get(jobData.result, "markdown"))
                     THEN jobData.result.markdown ELSE "Analysis completed"],
         jobData.result)

FailedResult(jobData) ==
  [status |-> "failed",
   error |-> IF Truthy(Get(jobData, "error")) THEN jobData.error
             ELSE "Analysis failed"]

TimeoutResult ==
  [status |-> "failed", error |-> "Analysis timed out. Please try again."]

LostConnectionResult ==
  [status |-> "failed", error |-> "Lost connection to server"]

\* Variant: the acceptance test does not read response.ok.
SubmitAcceptedIgnoresOk(resp) == Truthy(Get(resp.body, "job_id"))

SubmitAccepted(resp) == resp.ok /\ Truthy(Get(resp.body, "job_id"))

\* Variant: a body that already carries results is shown as the outcome.
SubmitRejectedShowsResults(data) ==
  IF Get(data, "status") = "success" THEN data
  ELSE [status |-> "failed",
        error |-> IF Truthy(Get(data, "error")) THEN data.error
                  ELSE "Failed to start analysis"]

SubmitRejectedResult(data) ==
  [status |-> "failed",
   error |-> IF Truthy(Get(data, "error")) THEN data.error
             ELSE "Failed to start analysis"]

ConnectionFailedResult == [status |-> "failed", error |-> "Connection failed"]

\* Variant: the submit button is never disabled.
SubmitAlwaysEnabled == TRUE

\* fetch(`${API_BASE_URL}/run-agent`, {method: 'POST', ...})
RunAgentRequest == [method |-> "POST", path |-> "/run-agent", job |-> nullStr]

\* fetch(`${API_BASE_URL}/results/${jobId}`): fetch's default method.
ResultsRequest(jobId) ==
  [method |-> "GET", path |-> "/results/{id}", job |-> jobId]

\* The three download buttons.
Formats == {"pdf", "markdown", "citations"}

\* downloadReport's url for a format; '' for any other format.
DownloadPath(format) ==
  CASE format = "pdf" -> "/download/{id}.pdf"
    [] format = "markdown" -> "/download/{id}.md"
    [] format = "citations" -> "/download/{id}/citations.json"
    [] OTHER -> ""

\* fetch(url) in downloadReport: fetch's default method.
DownloadRequest(format, jobId) ==
  [method |-> "GET", path |-> DownloadPath(format), job |-> jobId]

\* The submit button is disabled while isAnalyzing.
SubmitEnabled == ~isAnalyzing

\* The results panel: nothing for null, the success view for status
\* 'success', the failure view for anything else.
Outcome(r) ==
  IF r = null THEN "none"
  ELSE IF Get(r, "status") = "success" THEN "success" ELSE "failed"

\* --------------------------------------------------------------- actions
\* Variant: handleSubmit leaves the previous results in place.
SubmitKeepsResults(target, apiKey) ==
  /\ mounted
  /\ SubmitEnabled
  /\ Required(target)
  /\ Required(apiKey)
  /\ nSubmits < MaxSubmits
  /\ nSubmits' = nSubmits + 1
  /\ sub' = sub \cup {nSubmits + 1}
  /\ isAnalyzing' = TRUE
  /\ timer' = 0
  /\ jobStatus' = null
  /\ lastSubmit' = RunAgentBody(target, apiKey)
  /\ lastPoll' = NoPoll
  /\ net' = [last |-> RunAgentRequest, posts |-> net.posts + 1]
  /\ UNCHANGED <<mounted, results, currentJobId, loop>>
  /\ UNCHANGED backend
  /\ UNCHANGED rendered

\* The form's submit event: handleSubmit up to its await fetch.
Submit(target, apiKey) ==
  /\ mounted
  /\ SubmitEnabled
  /\ Required(target)
  /\ Required(apiKey)
  /\ nSubmits < MaxSubmits
  /\ nSubmits' = nSubmits + 1
  /\ sub' = sub \cup {nSubmits + 1}
  /\ isAnalyzing' = TRUE
  /\ timer' = 0
  /\ results' = null
  /\ jobStatus' = null
  /\ lastSubmit' = RunAgentBody(target, apiKey)
  /\ lastPoll' = NoPoll
  /\ net' = [last |-> RunAgentRequest, posts |-> net.posts + 1]
  /\ UNCHANGED <<mounted, currentJobId, loop>>
  /\ UNCHANGED backend
  /\ UNCHANGED rendered

\* Variant: the closure starts with one attempt already counted.
StartLoopAttemptCounted(jobId) ==
  [st |-> "timer", jobId |-> jobId, pollCount |-> 1, queries |-> 0,
   delay |-> FirstPollDelay]

\* pollForResults(jobId): a fresh closure and setTimeout(poll, 2000).
StartLoop(jobId) ==
  [st |-> "timer", jobId |-> jobId, pollCount |-> 0, queries |-> 0,
   delay |-> FirstPollDelay]

\* Variant: the catch block sends the POST again instead of giving up.
SubmitCatchRetries(i) ==
  /\ net' = [last |-> RunAgentRequest, posts |-> net.posts + 1]
  /\ UNCHANGED <<mounted, isAnalyzing, results, timer, currentJobId, jobStatus,
                 nSubmits, sub, loop, lastPoll>>

\* Variant: the catch block stores the failure and leaves isAnalyzing set.
SubmitCatchKeepsAnalyzing(i) ==
  /\ sub' = sub \ {i}
  /\ results' = ConnectionFailedResult
  /\ UNCHANGED <<mounted, isAnalyzing, timer, currentJobId, jobStatus, nSubmits,
                 loop, lastPoll, net>>

\* handleSubmit's catch block.
SubmitCatch(i) ==
  /\ sub' = sub \ {i}
  /\ results' = ConnectionFailedResult
  /\ isAnalyzing' = FALSE
  /\ UNCHANGED <<mounted, timer, currentJobId, jobStatus, nSubmits, loop,
                 lastPoll, net>>

\* The POST resolved and its body parsed: handleSubmit after the awaits.
\* A null body makes data.job_id / data.error throw a TypeError.
SubmitResponse(i, resp) ==
  /\ i \in sub
  /\ lastSubmit' = resp
  /\ IF resp.body = null
     THEN SubmitCatch(i)
     ELSE IF SubmitAccepted(resp)
     THEN /\ sub' = sub \ {i}
          /\ currentJobId' = resp.body.job_id
          /\ loop' = [loop EXCEPT ![i] = StartLoop(resp.body.job_id)]
          /\ UNCHANGED <<mounted, isAnalyzing, results, timer, jobStatus,
                         nSubmits, lastPoll, net>>
     ELSE /\ sub' = sub \ {i}
          /\ results' = SubmitRejectedResult(resp.body)
          /\ isAnalyzing' = FALSE
          /\ UNCHANGED <<mounted, timer, currentJobId, jobStatus, nSubmits, loop,
                         lastPoll, net>>
  /\ UNCHANGED backend
  /\ UNCHANGED rendered

\* The POST rejected, or response.json() threw.
SubmitThrows(i) ==
  /\ i \in sub
  /\ lastSubmit' = Threw
  /\ SubmitCatch(i)
  /\ UNCHANGED backend
  /\ UNCHANGED rendered

\* A poll timer fires: poll() runs up to its await fetch.
PollTimerFires(i) ==
  /\ loop[i].st = "timer"
  /\ loop' = [loop EXCEPT ![i].st = "fetch", ![i].queries = @ + 1,
                           ![i].delay = 0]
  /\ net' = [net EXCEPT !.last = ResultsRequest(loop[i].jobId)]
  /\ UNCHANGED <<mounted, isAnalyzing, results, timer, currentJobId, jobStatus,
                 nSubmits, sub, lastSubmit, lastPoll>>
  /\ UNCHANGED backend
  /\ UNCHANGED rendered

\* Variant: the spent-budget branch stores the result and leaves isAnalyzing
\* set.
ContinueKeepsAnalyzing(i, spent) ==
  IF BudgetLeft(loop[i].pollCount + 1)
  THEN /\ loop' = [loop EXCEPT ![i].st = "timer", ![i].pollCount = @ + 1,
                               ![i].delay = PollInterval]
       /\ UNCHANGED <<isAnalyzing, results>>
  ELSE /\ loop' = [loop EXCEPT ![i] = DoneLoop(@)]
       /\ results' = spent
       /\ UNCHANGED isAnalyzing

\* pollCount++ and the budget test, with the result stored when it is spent.
Continue(i, spent) ==
  IF BudgetLeft(loop[i].pollCount + 1)
  THEN /\ loop' = [loop EXCEPT ![i].st = "timer", ![i].pollCount = @ + 1,
                               ![i].delay = PollInterval]
       /\ UNCHANGED <<isAnalyzing, results>>
  ELSE /\ loop' = [loop EXCEPT ![i] = DoneLoop(@)]
       /\ results' = spent
       /\ isAnalyzing' = FALSE

\* Variant: the catch block reports the spent budget with the timeout message.
PollCatchTimeoutMessage(i) ==
  /\ lastPoll' = [inv |-> i, how |-> "throw"]
  /\ Continue(i, TimeoutResult)

\* Variant: the catch block gives up on the first error.
PollCatchGivesUp(i) ==
  /\ lastPoll' = [inv |-> i, how |-> "throw"]
  /\ loop' = [loop EXCEPT ![i] = DoneLoop(@)]
  /\ results' = LostConnectionResult
  /\ isAnalyzing' = FALSE

\* poll's catch block.
PollCatch(i) ==
  /\ lastPoll' = [inv |-> i, how |-> "throw"]
  /\ Continue(i, LostConnectionResult)

\* The status query resolved and its body parsed: poll after the awaits.
\* response.ok is not read.  A null body is stored by setJobStatus and then
\* makes jobData.status throw a TypeError.
PollResponse(i, resp) ==
  /\ loop[i].st = "fetch"
  /\ jobStatus' = resp.body
  /\ IF resp.body = null
     THEN PollCatch(i)
     ELSE /\ lastPoll' = [inv |-> i, how |-> IF resp.ok THEN "ok" ELSE "http_error"]
          /\ IF IsCompleted(resp.body)
             THEN /\ results' = SuccessResult(resp.body)
                  /\ isAnalyzing' = FALSE
                  /\ loop' = [loop EXCEPT ![i] = DoneLoop(@)]
             ELSE IF IsFailed(resp.body)
             THEN /\ results' = FailedResult(resp.body)
                  /\ isAnalyzing' = FALSE
                  /\ loop' = [loop EXCEPT ![i] = DoneLoop(@)]
             ELSE Continue(i, TimeoutResult)
  /\ UNCHANGED <<mounted, timer, currentJobId, nSubmits, sub, lastSubmit, net>>
  /\ UNCHANGED backend
  /\ UNCHANGED rendered

\* The status query rejected, or response.json() threw.
PollThrows(i) ==
  /\ loop[i].st = "fetch"
  /\ PollCatch(i)
  /\ UNCHANGED <<mounted, timer, currentJobId, jobStatus, nSubmits, sub,
                 lastSubmit, net>>
  /\ UNCHANGED backend
  /\ UNCHANGED rendered

\* Variant: the interval runs whether or not an analysis is in progress.
TickWhenIdle ==
  /\ mounted
  /\ timer < MaxTimer
  /\ timer' = timer + 1
  /\ UNCHANGED <<mounted, isAnalyzing, results, currentJobId, jobStatus,
                 nSubmits, sub, loop, lastSubmit, lastPoll, net>>
  /\ UNCHANGED backend
  /\ UNCHANGED rendered

\* The one-second interval of the timer effect.
Tick ==
  /\ mounted
  /\ isAnalyzing
  /\ timer < MaxTimer
  /\ timer' = timer + 1
  /\ UNCHANGED <<mounted, isAnalyzing, results, currentJobId, jobStatus,
                 nSubmits, sub, loop, lastSubmit, lastPoll, net>>
  /\ UNCHANGED backend
  /\ UNCHANGED rendered

\* A download button is clicked: downloadReport(format).  The buttons are
\* part of the success view.  The response only feeds a temporary link or an
\* alert; no state is set.
DownloadReport(format) ==
  /\ mounted
  /\ Outcome(results) = "success"
  /\ IF ~Truthy(currentJobId)
     THEN UNCHANGED net
     ELSE net' = [net EXCEPT !.last = DownloadRequest(format, currentJobId)]
  /\ UNCHANGED <<mounted, isAnalyzing, results, timer, currentJobId, jobStatus,
                 nSubmits, sub, loop, lastSubmit, lastPoll>>
  /\ UNCHANGED backend
  /\ UNCHANGED rendered

\* The component is torn down: the effect's cleanup clears the interval;
\* nothing clears the poll timers or aborts the requests in flight.
Unmount ==
  /\ mounted
  /\ mounted' = FALSE
  /\ UNCHANGED <<isAnalyzing, results, timer, currentJobId, jobStatus,
                 nSubmits, sub, loop, lastSubmit, lastPoll, net>>
  /\ UNCHANGED backend
  /\ UNCHANGED rendered

Next ==
  \/ \E target \in Targets, apiKey \in ApiKeys : Submit(target, apiKey)
  \/ \E i \in Invocations, resp \in SubmitResponses : SubmitResponse(i, resp)
  \/ \E i \in Invocations : SubmitThrows(i)
  \/ \E i \in Invocations : PollTimerFires(i)
  \/ \E i \in Invocations, resp \in PollResponses : PollResponse(i, resp)
  \/ \E i \in Invocations : PollThrows(i)
  \/ Tick
  \/ \E format \in Formats : DownloadReport(format)
  \/ Unmount

Spec == Init /\ [][Next]_vars

\* Every request in flight eventually resolves or rejects and every pending
\* poll timer eventually fires.
Fairness ==
  /\ WF_vars(\E i \in Invocations :
               SubmitThrows(i) \/ \E resp \in SubmitResponses : SubmitResponse(i, resp))
  /\ WF_vars(\E i \in Invocations : PollTimerFires(i))
  /\ WF_vars(\E i \in Invocations :
               PollThrows(i) \/ \E resp \in PollResponses : PollResponse(i, resp))

LiveSpec == Spec /\ Fairness

\* ---------------------------------------------------------------- claims
\* This step handled the answer to a status query of invocation i.
Handled(i) == loop[i].st = "fetch" /\ loop'[i] # loop[i]

\* This step ran handleSubmit i to its end.
Returned(i) == i \in sub /\ i \notin sub'

\* A handled status query produced a job record with a terminal status.
YieldsTerminal(lp, js) ==
  /\ lp.how \in {"ok", "http_error"}
  /\ js # null
  /\ Get(js, "status") \in {"completed", "failed"}

\* A submission response that is successful and carries a job identifier.
Accepted(r) ==
  /\ "ok" \in DOMAIN r
  /\ r.ok
  /\ "job_id" \in DOMAIN r.body
  /\ r.body.job_id \in JobIds

\* A submission that was rejected (non-OK) or whose request failed.
Rejected(r) == r = Threw \/ ("ok" \in DOMAIN r /\ ~r.ok)

C1_QueriesBounded == \A i \in Invocations : loop[i].queries <= maxPolls

C1_BudgetSpent ==
  \A i \in Invocations :
    (Handled(i) /\ loop[i].queries = maxPolls
       /\ ~YieldsTerminal(lastPoll', jobStatus'))
    => (loop'[i].st = "done" /\ ~isAnalyzing' /\ Outcome(results') = "failed")

\* C1: a polling loop issues at most maxPolls (60) status queries, and when
\* the last of them yields no terminal job status the loop stops scheduling
\* polls and the client ends failed with isAnalyzing = false.
C1_PollBudget == [](C1_QueriesBounded) /\ [][C1_BudgetSpent]_vars

C1_Witness ==
  \E i \in Invocations :
    /\ loop[i].st = "done"
    /\ lastPoll = [inv |-> i, how |-> "ok"]
    /\ jobStatus = [status |-> "pending"]
    /\ results = TimeoutResult
    /\ ~isAnalyzing

\* C2: a status query that throws, with budget left, consumes exactly one
\* attempt of the counter that non-terminal polls consume, keeps isAnalyzing
\* true and results null, and schedules the next poll.
C2_TransientErrorRetries ==
  [][\A i \in Invocations :
       /\ (Handled(i) /\ lastPoll' = [inv |-> i, how |-> "throw"]
             /\ loop[i].pollCount + 1 < maxPolls)
          => /\ loop'[i].st = "timer"
             /\ loop'[i].pollCount = loop[i].pollCount + 1
             /\ loop'[i].queries = loop[i].queries
             /\ isAnalyzing /\ isAnalyzing'
             /\ results' = null
       /\ (Handled(i) /\ loop'[i].st = "timer")
          => loop'[i].pollCount = loop[i].pollCount + 1]_vars

C2_Witness ==
  \E i \in Invocations :
    /\ loop[i].st = "timer"
    /\ loop[i].pollCount >= 2
    /\ lastPoll = [inv |-> i, how |-> "throw"]
    /\ isAnalyzing
    /\ results = null

\* C3: whenever the status query has returned (200) a record with status =
\* completed, the client has a success result, isAnalyzing = false and no
\* poll is pending or in flight.
C3_CompletedAlwaysSucceeds ==
  (lastPoll.how = "ok" /\ jobStatus # null /\ Get(jobStatus, "status") = "completed")
  => /\ ~isAnalyzing
     /\ Outcome(results) = "success"
     /\ \A i \in Invocations : ~Live(loop[i])

\* C4: a status record with status = failed ends the loop at once with a
\* failed outcome, whatever budget remains; a status query that throws ends
\* the loop only when it spends the last attempt.
C4_JobFailedVsPollFailed ==
  [][\A i \in Invocations :
       Handled(i) =>
         /\ (lastPoll'.how # "throw" /\ Get(jobStatus', "status") = "failed")
            => /\ loop'[i].st = "done"
               /\ ~isAnalyzing'
               /\ Outcome(results') = "failed"
         /\ lastPoll'.how = "throw"
            => /\ loop'[i].st = "done" <=> loop[i].pollCount + 1 >= maxPolls
               /\ loop'[i].st = "timer" <=> loop[i].pollCount + 1 < maxPolls]_vars

C4_Witness ==
  \E i \in Invocations :
    /\ loop[i].st = "done"
    /\ lastPoll = [inv |-> i, how |-> "ok"]
    /\ jobStatus = [status |-> "failed", error |-> "Agent crashed"]
    /\ results = [status |-> "failed", error |-> "Agent crashed"]
    /\ ~isAnalyzing

\* C5: when the status query itself answers with an error (a non-2xx
\* response such as 404), the loop has ended and the client is failed.
C5_QueryErrorFails ==
  \A i \in Invocations :
    lastPoll = [inv |-> i, how |-> "http_error"]
    => (loop[i].st = "done" /\ ~isAnalyzing /\ Outcome(results) = "failed")

C6_NothingPending ==
  (~isAnalyzing /\ Outcome(results) # "none")
  => \A i \in Invocations : ~Live(loop[i])

C6_DoneStaysDone ==
  \A i \in Invocations : loop[i].st = "done" => loop'[i] = loop[i]

\* C6: while the client shows a terminal outcome no poll timer is pending and
\* no status query is in flight, and a loop that has ended never issues
\* another query.
C6_TerminalStopsPolling == [](C6_NothingPending) /\ [][C6_DoneStaysDone]_vars

C6_Witness ==
  \E i \in Invocations :
    /\ loop[i].st = "done"
    /\ Outcome(results) = "success"
    /\ ~isAnalyzing
    /\ nSubmits = i

\* C7: after the component is torn down while a job is being polled, no
\* poll is scheduled or executed and no setter is called.
C7_NoPollAfterTeardown ==
  [][(~mounted /\ \E i \in Invocations : Live(loop[i]))
     => UNCHANGED <<loop, jobStatus, results, isAnalyzing>>]_vars

\* C8: every submission eventually reaches a terminal client outcome
\* (isAnalyzing = false, results success or failed), given that requests
\* resolve or reject and timers fire.
C8_EventuallyTerminal ==
  isAnalyzing ~> (~isAnalyzing /\ Outcome(results) \in {"success", "failed"})

C8_Witness ==
  /\ ~isAnalyzing
  /\ results = TimeoutResult
  /\ jobStatus = [status |-> "running", progress |-> [stage |-> "running_analysis"]]
  /\ nSubmits = MaxSubmits

\* C9: handleSubmit starts polling exactly when the response is successful
\* and carries a job identifier: then currentJobId is that identifier and
\* exactly one loop is started for it; otherwise no loop is started, and no
\* loop starts any other way.
C9_PollingStartsOnJobId ==
  [][\A i \in Invocations :
       /\ (Returned(i) /\ Accepted(lastSubmit'))
          => /\ currentJobId' = lastSubmit'.body.job_id
             /\ loop'[i] = [st |-> "timer", jobId |-> lastSubmit'.body.job_id,
                            pollCount |-> 0, queries |-> 0, delay |-> 2000]
             /\ \A j \in Invocations \ {i} : loop'[j] = loop[j]
       /\ (Returned(i) /\ ~Accepted(lastSubmit'))
          => (loop' = loop /\ currentJobId' = currentJobId)
       /\ (loop[i].st = "none" /\ loop'[i].st # "none")
          => (Returned(i) /\ Accepted(lastSubmit'))]_vars

C9_Witness ==
  \E i \in Invocations :
    /\ loop[i] = [st |-> "timer", jobId |-> "job-2", pollCount |-> 0,
                  queries |-> 0, delay |-> 2000]
    /\ currentJobId = "job-2"
    /\ lastSubmit = [ok |-> TRUE, body |-> [job_id |-> "job-2"]]
    /\ isAnalyzing

C10_FailedOutcome ==
  (sub = {} /\ Rejected(lastSubmit))
  => /\ ~isAnalyzing
     /\ Outcome(results) = "failed"
     /\ Truthy(Get(results, "error"))
     /\ \A i \in Invocations : ~Live(loop[i])

C10_NoPolling ==
  \A i \in Invocations :
    /\ (Returned(i) /\ Rejected(lastSubmit')) => loop' = loop
    /\ (loop[i].st = "none" /\ i <= nSubmits /\ i \notin sub)
       => loop'[i].st = "none"

\* C10: a submission that is rejected (non-OK response) or whose request
\* fails leaves the client failed with an error message and isAnalyzing =
\* false, and no polling loop is ever started for it.
C10_SubmitFailure == [](C10_FailedOutcome) /\ [][C10_NoPolling]_vars

C10_Witness ==
  /\ lastSubmit = [ok |-> FALSE, body |-> [error |-> "Target is required"]]
  /\ results = [status |-> "failed", error |-> "Target is required"]
  /\ ~isAnalyzing
  /\ \A i \in Invocations : loop[i].st = "none"


\* String.prototype.trim on a field value.
RECURSIVE TrimLeft(_)
TrimLeft(s) == IF s # <<>> /\ Head(s) = " " THEN TrimLeft(Tail(s)) ELSE s

RECURSIVE TrimRight(_)
TrimRight(s) ==
  IF s # <<>> /\ s[Len(s)] = " " THEN TrimRight(SubSeq(s, 1, Len(s) - 1)) ELSE s

Trim(s) == TrimRight(TrimLeft(s))

\* C11: no POST /run-agent is ever in flight whose target is empty after
\* trimming: such a submission sends nothing and the client stays idle.
C11_NoBlankTargetSent ==
  "target" \in DOMAIN lastSubmit => Trim(lastSubmit.target) # <<>>


\* C12: whenever the client outcome is failed, results.error is a non-empty
\* string (the failure view has a message of its own to show).
C12_FailureCarriesError ==
  Outcome(results) = "failed" => Truthy(Get(results, "error"))


\* This step spent the budget of loop i: its last status query was handled,
\* yielded no terminal job status, and the loop ended.
BudgetExhausted(i) ==
  /\ Handled(i)
  /\ loop'[i].st = "done"
  /\ ~YieldsTerminal(lastPoll', jobStatus')

\* C13 as stated: whenever the budget is spent without a terminal status, the
\* reported error is the timeout message.
C13_AlwaysTimeoutMessage ==
  [][\A i \in Invocations :
       BudgetExhausted(i)
       => results' = [status |-> "failed",
                      error |-> "Analysis timed out. Please try again."]]_vars

\* C13 amended: whenever the budget is spent without a terminal status the
\* client gives up failed; the error is the timeout message when the last
\* attempt was answered and 'Lost connection to server' when it threw.
C13_BudgetSpentMessage ==
  [][\A i \in Invocations :
       BudgetExhausted(i)
       => /\ ~isAnalyzing'
          /\ results' = [status |-> "failed",
                         error |-> IF lastPoll'.how = "throw"
                                   THEN "Lost connection to server"
                                   ELSE "Analysis timed out. Please try again."]]_vars

C13_Witness ==
  \E i \in Invocations :
    /\ loop[i].st = "done"
    /\ lastPoll = [inv |-> i, how |-> "throw"]
    /\ results = [status |-> "failed", error |-> "Lost connection to server"]
    /\ jobStatus = [status |-> "pending"]
    /\ ~isAnalyzing


C14_AtMostOnePoll ==
  /\ Cardinality(sub) + Cardinality({i \in Invocations : Live(loop[i])}) <= 1
  /\ (sub # {} \/ \E i \in Invocations : Live(loop[i])) => isAnalyzing

C14_Reschedule ==
  \A i \in Invocations :
    /\ (Handled(i) /\ lastPoll'.how # "throw"
          /\ Get(jobStatus', "status") \in {"pending", "running"}
          /\ loop[i].pollCount + 1 < maxPolls)
       => /\ loop'[i].st = "timer"
          /\ loop'[i].delay = 10000
          /\ \A j \in Invocations \ {i} : loop'[j] = loop[j]
    /\ (loop[i].st = "none" /\ loop'[i].st # "none")
       => (loop'[i].st = "timer" /\ loop'[i].delay = 2000)

\* C14: a non-terminal status response within the budget schedules one next
\* poll 10 s later (the first poll 2 s after the job id arrives), and at no
\* time is more than one submission or poll (timer pending or status query
\* in flight) outstanding, which only happens while isAnalyzing is true.
C14_SinglePollChain == [](C14_AtMostOnePoll) /\ [][C14_Reschedule]_vars

C14_Witness ==
  /\ nSubmits = 2
  /\ loop[1].st = "done"
  /\ loop[2].st = "timer"
  /\ loop[2].delay = 10000
  /\ jobStatus = [status |-> "pending"]
  /\ isAnalyzing


\* C15: the client issues one POST /run-agent per submission and nothing
\* else but GETs (status polls and downloads): no request of the client
\* deletes or modifies a job.
C15_ReadOnlyClient ==
  /\ net.posts = nSubmits
  /\ net.last.method \in {"NONE", "POST", "GET"}
  /\ net.last.method = "POST" => net.last.path = "/run-agent"
  /\ net.last.method = "GET"
     => /\ net.last.path \in {"/results/{id}", "/download/{id}.pdf",
                              "/download/{id}.md", "/download/{id}/citations.json"}
        /\ net.last.job \in JobIds

C15_Witness ==
  /\ net.last = [method |-> "GET", path |-> "/download/{id}/citations.json",
                 job |-> "job-1"]
  /\ net.posts = 1
  /\ Outcome(results) = "success"


\* ------------------------------------------------- agent status indicators
\* The agents array of the pipeline panel.
NumAgents == 5

AgentIndexes == 0..(NumAgents - 1)

\* (jobStatus.progress || {}).stage
ProgressStage(js) ==
  IF TruthyObj(js, "progress") THEN Get(js.progress, "stage") ELSE undefined

\* Variant: during running_analysis every agent from the fourth on is running.
getAgentStatusTwoRunning(index) ==
  IF ~isAnalyzing THEN "ready"
  ELSE IF jobStatus = null THEN (IF index = 0 THEN "running" ELSE "pending")
  ELSE CASE ProgressStage(jobStatus) = "creating_agents"
              -> IF index = 0 THEN "running" ELSE "pending"
         [] ProgressStage(jobStatus) = "running_analysis"
              -> IF index <= 2 THEN "completed" ELSE "running"
         [] ProgressStage(jobStatus) = "completed" -> "completed"
         [] ProgressStage(jobStatus) = "failed" -> "failed"
         [] OTHER -> IF index = 0 THEN "running" ELSE "pending"

getAgentStatus(index) ==
  IF ~isAnalyzing THEN "ready"
  ELSE IF jobStatus = null THEN (IF index = 0 THEN "running" ELSE "pending")
  ELSE CASE ProgressStage(jobStatus) = "creating_agents"
              -> IF index = 0 THEN "running" ELSE "pending"
         [] ProgressStage(jobStatus) = "running_analysis"
              -> IF index <= 2 THEN "completed"
                 ELSE IF index = 3 THEN "running" ELSE "pending"
         [] ProgressStage(jobStatus) = "completed" -> "completed"
         [] ProgressStage(jobStatus) = "failed" -> "failed"
         [] OTHER -> IF index = 0 THEN "running" ELSE "pending"

\* The indicator drawn at the right of an agent's row.
AgentIndicator(index) ==
  CASE getAgentStatus(index) = "running" -> "yellow pulse"
    [] getAgentStatus(index) = "completed" -> "green check"
    [] getAgentStatus(index) = "failed" -> "red alert"
    [] OTHER -> IF results # null /\ Get(results, "status") = "success"
                THEN "green check" ELSE "gray dot"

\* C16: once the poller has received a job record with status = failed, the
\* agent indicators are in the failed state.
C16_FailedIndicators ==
  (mounted /\ lastPoll.how = "ok" /\ jobStatus # null
     /\ Get(jobStatus, "status") = "failed")
  => \A index \in AgentIndexes :
       /\ getAgentStatus(index) = "failed"
       /\ AgentIndicator(index) = "red alert"


\* ------------------------------------------------------------ the backend
\* Job Runner, Job Store, Status/Result Endpoint and Download/Export Adapter.
SubmittedTargets == {<<>>, <<" ">>, <<"a">>}
Modes == {"quick", "detailed"}
Faults == {"exception", "timeout", "malformed"}
Payloads == {[narrativeText |-> "report", citations |-> "citations"]}
ExportFormats == {"primary-report", "alternate-markup", "citation-list"}

Terminal(status) == status \in {"completed", "failed"}

\* target must be non-empty after trimming; credentials must be present.
Valid(target, credentials) == Trim(target) # <<>> /\ credentials # <<>>

\* Variant: the lowest identifier whose slot is free is issued again.
NewIdReusesFreed ==
  IF \E id \in BackendIds : jobs[id] = NoJob
  THEN CHOOSE id \in BackendIds :
         jobs[id] = NoJob /\ \A k \in BackendIds : jobs[k] = NoJob => id <= k
  ELSE nextId

\* Variant: the identifier issued last is issued again.
NewIdIssuedAgain == IF nextId > 1 THEN nextId - 1 ELSE nextId

\* Identifiers are never reused.
NewId == nextId

PendingJob(id, target, mode) ==
  [id |-> id, status |-> "pending", target |-> target, mode |-> mode,
   result |-> NoValue, error |-> NoValue]

RunningJob(job) == [job EXCEPT !.status = "running"]

\* Variant: the status is written without the parsed payload.
CompletedJobStatusOnly(job, payload) == [job EXCEPT !.status = "completed"]

CompletedJob(job, payload) ==
  [job EXCEPT !.status = "completed", !.result = payload]

ErrorText(cause) ==
  CASE cause = "timeout" -> "External call timed out"
    [] cause = "malformed" -> "External call returned unparseable content"
    [] OTHER -> "External call failed"

\* Variant: a fault of the external call leaves the record as it was.
FailedJobLeftRunning(job, cause) == job

FailedJob(job, cause) ==
  [job EXCEPT !.status = "failed", !.error = [message |-> ErrorText(cause)]]

\* The read projection of a Job record.
JobView(job) ==
  [status |-> job.status,
   result |-> IF job.status = "completed" THEN job.result ELSE NoValue,
   error |-> IF job.status = "failed" THEN job.error ELSE NoValue]

Artifact(result, format) ==
  [format |-> format,
   content |-> IF format = "citation-list" THEN result.citations
               ELSE result.narrativeText]

\* Variant: an unfinished job is exported as an empty artifact.
ExportOutcomeEmptyArtifact(job, format) ==
  IF job = NoJob THEN [kind |-> "NotFound"]
  ELSE IF job.status # "completed"
  THEN [kind |-> "artifact", artifact |-> [format |-> format, content |-> ""]]
  ELSE [kind |-> "artifact", artifact |-> Artifact(job.result, format)]

ExportOutcome(job, format) ==
  IF job = NoJob THEN [kind |-> "NotFound"]
  ELSE IF job.status # "completed" THEN [kind |-> "NotReady"]
  ELSE [kind |-> "artifact", artifact |-> Artifact(job.result, format)]

\* submit(target, mode, credentials): a validation error is answered
\* synchronously and stores nothing; else a pending record is created and
\* its background task scheduled.
BackendSubmit(target, mode, credentials) ==
  /\ nextId \in BackendIds
  /\ IF ~Valid(target, credentials)
     THEN /\ reply' = [op |-> "submit", outcome |-> "ValidationError"]
          /\ UNCHANGED <<jobs, nextId, task>>
     ELSE /\ jobs' = [jobs EXCEPT ![NewId] = PendingJob(NewId, target, mode)]
          /\ task' = [task EXCEPT ![NewId] = "scheduled"]
          /\ nextId' = nextId + 1
          /\ reply' = [op |-> "submit", outcome |-> "Accepted", id |-> NewId]
  /\ UNCHANGED seen
  /\ UNCHANGED client
  /\ UNCHANGED rendered

\* The background task starts: pending -> running, external call issued.
RunnerStart(id) ==
  /\ task[id] = "scheduled"
  /\ jobs' = [jobs EXCEPT ![id] = RunningJob(@)]
  /\ task' = [task EXCEPT ![id] = "calling"]
  /\ UNCHANGED <<nextId, seen, reply>>
  /\ UNCHANGED client
  /\ UNCHANGED rendered

\* The external research call ends: with a payload, or with an exception, a
\* timeout or a malformed payload.  The record is replaced in one write.
ExternalReturns(id, outcome, payload) ==
  /\ task[id] = "calling"
  /\ jobs' = [jobs EXCEPT ![id] = IF outcome = "ok"
                                  THEN CompletedJob(@, payload)
                                  ELSE FailedJob(@, outcome)]
  /\ task' = [task EXCEPT ![id] = outcome]
  /\ UNCHANGED <<nextId, seen, reply>>
  /\ UNCHANGED client
  /\ UNCHANGED rendered

\* query(job_id) by a reader: the store's current snapshot, or NotFound.
Query(r, id) ==
  /\ IF jobs[id] = NoJob
     THEN /\ reply' = [op |-> "query", id |-> id, outcome |-> "NotFound"]
          /\ UNCHANGED seen
     ELSE /\ reply' = [op |-> "query", id |-> id, outcome |-> "JobView",
                       view |-> JobView(jobs[id])]
          /\ seen' = [seen EXCEPT ![r][id] = jobs[id].status]
  /\ UNCHANGED <<jobs, nextId, task>>
  /\ UNCHANGED client
  /\ UNCHANGED rendered

\* export(job_id, format).
Export(id, format) ==
  /\ reply' = [op |-> "export", id |-> id,
               outcome |-> ExportOutcome(jobs[id], format).kind,
               body |-> ExportOutcome(jobs[id], format)]
  /\ UNCHANGED <<jobs, nextId, task, seen>>
  /\ UNCHANGED client
  /\ UNCHANGED rendered

\* delete(job_id): the record is destroyed and its background task with it.
Delete(id) ==
  /\ IF jobs[id] = NoJob
     THEN /\ reply' = [op |-> "delete", id |-> id, outcome |-> "NotFound"]
          /\ UNCHANGED <<jobs, task>>
     ELSE /\ reply' = [op |-> "delete", id |-> id, outcome |-> "Deleted"]
          /\ jobs' = [jobs EXCEPT ![id] = NoJob]
          /\ task' = [task EXCEPT ![id] = "dropped"]
  /\ UNCHANGED <<nextId, seen>>
  /\ UNCHANGED client
  /\ UNCHANGED rendered

BackendNext ==
  \/ \E target \in SubmittedTargets, mode \in Modes, credentials \in ApiKeys :
       BackendSubmit(target, mode, credentials)
  \/ \E id \in BackendIds : RunnerStart(id)
  \/ \E id \in BackendIds, outcome \in {"ok"} \cup Faults, payload \in Payloads :
       ExternalReturns(id, outcome, payload)
  \/ \E r \in Readers, id \in BackendIds : Query(r, id)
  \/ \E id \in BackendIds, format \in ExportFormats : Export(id, format)
  \/ \E id \in BackendIds : Delete(id)

BackendSpec == Init /\ [][BackendNext]_vars



\* The statuses a reader may observe after having observed `a`.
Follows(a, b) ==
  \/ a = b
  \/ a = "none"
  \/ a = "pending" /\ b \in {"running", "completed", "failed"}
  \/ a = "running" /\ b \in {"completed", "failed"}

\* C17: the statuses a reader observes for one job over repeated queries
\* form a subsequence of pending, running, completed or of pending,
\* running, failed; a terminal status is never followed by another status.
C17_MonotonicObservations ==
  [][\A r \in Readers, id \in BackendIds : Follows(seen[r][id], seen'[r][id])]_vars

C17_Witness ==
  /\ seen["poller"][1] = "completed"
  /\ jobs[1] = NoJob
  /\ jobs[2] # NoJob
  /\ seen["poller"][2] = "pending"
  /\ reply.op = "query" /\ reply.id = 1 /\ reply.outcome = "NotFound"


\* C18: in every state of every job record, result is populated only when
\* status = completed, error only when status = failed, and a terminal job
\* has exactly one of the two populated.
C18_ResultXorError ==
  \A id \in BackendIds :
    jobs[id] # NoJob
    => /\ jobs[id].result # NoValue => jobs[id].status = "completed"
       /\ jobs[id].error # NoValue => jobs[id].status = "failed"
       /\ Terminal(jobs[id].status)
          => (jobs[id].result # NoValue) # (jobs[id].error # NoValue)

C18_Witness ==
  /\ jobs[1] # NoJob /\ jobs[1].status = "completed"
  /\ jobs[1].result \in Payloads /\ jobs[1].error = NoValue
  /\ jobs[2] # NoJob /\ jobs[2].status = "failed"
  /\ jobs[2].error = [message |-> "External call timed out"]
  /\ jobs[2].result = NoValue

\* C19: an exception, a timeout or a malformed payload of the external call
\* always leaves the job failed with an error message; the step that records
\* the fault answers no caller, no reply ever carries the fault, and a later
\* status query shows it.
C19_FaultRecorded ==
  /\ \A id \in BackendIds :
       task[id] \in Faults
       => /\ jobs[id] # NoJob
          /\ jobs[id].status = "failed"
          /\ jobs[id].error # NoValue
          /\ jobs[id].error.message # ""
  /\ reply.op # "none" => reply.outcome \notin Faults \cup {"UpstreamError"}

C19_FaultStep ==
  /\ \A id \in BackendIds :
       (task[id] = "calling" /\ task'[id] \in Faults)
       => /\ reply' = reply
          /\ jobs'[id] = FailedJob(jobs[id], task'[id])
          /\ \A other \in BackendIds \ {id} : jobs'[other] = jobs[other]
  /\ (reply' # reply /\ reply'.op = "query" /\ task[reply'.id] \in Faults)
     => /\ reply'.outcome = "JobView"
        /\ reply'.view.status = "failed"
        /\ reply'.view.error = [message |-> ErrorText(task[reply'.id])]

C19_FaultsCaptured == [](C19_FaultRecorded) /\ [][C19_FaultStep]_vars

C19_Witness ==
  /\ task[1] = "malformed"
  /\ reply = [op |-> "query", id |-> 1, outcome |-> "JobView",
              view |-> [status |-> "failed", result |-> NoValue,
                        error |-> [message |->
                          "External call returned unparseable content"]]]

\* C20: an export of a job that exists and is not completed answers
\* NotReady, not NotFound and not an artifact, and changes no job record.
C20_ExportStep ==
  (reply' # reply /\ reply'.op = "export" /\ jobs[reply'.id] # NoJob
     /\ jobs[reply'.id].status # "completed")
  => /\ reply'.outcome = "NotReady"
     /\ reply'.outcome # "NotFound"
     /\ reply'.body = [kind |-> "NotReady"]
     /\ jobs' = jobs
     /\ task' = task

C20_ExportNotReady == [][C20_ExportStep]_vars

C20_Witness ==
  /\ reply.op = "export"
  /\ reply.outcome = "NotReady"
  /\ jobs[reply.id] # NoJob
  /\ jobs[reply.id].status = "running"


\* C21: two submissions get two distinct identifiers, each record is stored
\* under its own identifier, and the completion of one job's external call
\* writes that job's own outcome into that job's record and leaves every
\* other record as it was.
C21_OwnRecord ==
  \A id \in BackendIds : jobs[id] # NoJob => jobs[id].id = id

C21_SubmitStep ==
  nextId' # nextId
  => /\ reply'.op = "submit" /\ reply'.outcome = "Accepted"
     /\ jobs[reply'.id] = NoJob
     /\ task[reply'.id] = "idle"
     /\ jobs'[reply'.id].status = "pending"
     /\ \A other \in BackendIds \ {reply'.id} :
          jobs'[other] = jobs[other] /\ task'[other] = task[other]

C21_CompletionStep ==
  \A id \in BackendIds :
    (task[id] = "calling" /\ task'[id] \in {"ok"} \cup Faults)
    => /\ jobs'[id].id = id
       /\ jobs'[id].target = jobs[id].target
       /\ jobs'[id].mode = jobs[id].mode
       /\ jobs'[id].status = IF task'[id] = "ok" THEN "completed" ELSE "failed"
       /\ task'[id] \in Faults => jobs'[id].error = [message |-> ErrorText(task'[id])]
       /\ \A other \in BackendIds \ {id} :
            jobs'[other] = jobs[other] /\ task'[other] = task[other]

C21_IndependentJobs ==
  [](C21_OwnRecord) /\ [][C21_SubmitStep /\ C21_CompletionStep]_vars

C21_Witness ==
  /\ jobs[1] # NoJob /\ jobs[2] # NoJob
  /\ jobs[1].target = jobs[2].target
  /\ jobs[1].id = 1 /\ jobs[2].id = 2
  /\ task[1] = "exception" /\ jobs[1].status = "failed"
  /\ task[2] = "ok" /\ jobs[2].status = "completed"


\* C22: once the poller has accepted a completed job (status = completed with
\* a result object), the stored result has status = 'success' and
\* product_name equal to the job's target, whatever the result object holds.
C22_SuccessShape ==
  (lastPoll.how = "ok" /\ jobStatus # null /\ IsCompleted(jobStatus))
  => /\ results # null
     /\ Get(results, "status") = "success"
     /\ Get(results, "product_name") = Get(jobStatus, "target")


\* A submission response that is successful and carries no job identifier.
OkWithoutJobId(r) ==
  /\ "ok" \in DOMAIN r
  /\ r.ok
  /\ ~Truthy(Get(r.body, "job_id"))

C23_FailedOutcome ==
  (sub = {} /\ OkWithoutJobId(lastSubmit))
  => /\ ~isAnalyzing
     /\ Outcome(results) = "failed"
     /\ \A i \in Invocations : ~Live(loop[i])

C23_NoPolling ==
  \A i \in Invocations :
    (Returned(i) /\ OkWithoutJobId(lastSubmit'))
    => (loop' = loop /\ currentJobId' = currentJobId /\ jobStatus' = jobStatus)

\* C23: a successful submission response without a job_id (an empty one, or
\* one that carries results at once) is a failed submission: the failure view
\* is shown, no success result, and no polling loop is started.
C23_AsyncContractOnly == [](C23_FailedOutcome) /\ [][C23_NoPolling]_vars

C23_Witness ==
  /\ lastSubmit = [ok |-> TRUE, body |-> [status |-> "success", report |-> "# Report"]]
  /\ results = [status |-> "failed", error |-> "Failed to start analysis"]
  /\ ~isAnalyzing
  /\ \A i \in Invocations : loop[i].st = "none"


\* C24: isAnalyzing implies results = null, results # null implies
\* ~isAnalyzing, and after the first submission exactly one of "analysis in
\* progress" and "an outcome is displayed" holds.
C24_AnalyzingXorOutcome ==
  /\ isAnalyzing => results = null
  /\ results # null => ~isAnalyzing
  /\ nSubmits >= 1 => (isAnalyzing # (results # null))
  /\ nSubmits = 0 => (~isAnalyzing /\ results = null)

C24_Witness ==
  /\ nSubmits = 2
  /\ isAnalyzing
  /\ results = null
  /\ loop[1].st = "done"
  /\ \E i \in Invocations : loop[i].st = "fetch"


\* The paths downloadReport requests.
DownloadPaths == {DownloadPath(format) : format \in Formats}

\* The identifier the loop that handled the latest status query polled for.
PolledJob == IF lastPoll.inv \in Invocations THEN loop[lastPoll.inv].jobId ELSE nullStr

\* C25: whenever the success view is displayed, currentJobId is the
\* identifier of the job whose completed record produced the displayed
\* result, and every download request names that job.
C25_DownloadsCompletedJob ==
  /\ Outcome(results) = "success"
     => /\ lastPoll.how \in {"ok", "http_error"}
        /\ jobStatus # null /\ IsCompleted(jobStatus)
        /\ currentJobId \in JobIds
        /\ currentJobId = PolledJob
  /\ net.last.path \in DownloadPaths
     => /\ Outcome(results) = "success"
        /\ net.last.job = PolledJob

C25_Witness ==
  /\ nSubmits = 2
  /\ loop[1].st = "done" /\ loop[1].jobId = "job-1"
  /\ loop[2].st = "done" /\ loop[2].jobId = "job-2"
  /\ Outcome(results) = "success"
  /\ net.last = [method |-> "GET", path |-> "/download/{id}.pdf", job |-> "job-2"]


\* C26: a terminal job status received on the last budgeted attempt (the
\* 60th status query) is honoured: the client ends in success for completed
\* and in the job's failure for failed, not in the timed-out outcome.
C26_LastAttemptHonoured ==
  [][\A i \in Invocations :
       (Handled(i) /\ loop[i].queries = maxPolls /\ lastPoll'.how = "ok"
          /\ YieldsTerminal(lastPoll', jobStatus'))
       => /\ loop'[i].st = "done"
          /\ results' # TimeoutResult
          /\ Get(jobStatus', "status") = "completed" => Outcome(results') = "success"
          /\ Get(jobStatus', "status") = "failed" => results' = FailedResult(jobStatus')]_vars


\* C27: every polling loop starts with no attempt counted, whatever earlier
\* loops consumed, and gives up for lack of budget only after its own 60th
\* query; handleSubmit resets timer to 0, results to null and jobStatus to
\* null in the step that sends the submission request.
C27_FreshBudgetStep ==
  /\ \A i \in Invocations :
       /\ (loop[i].st = "none" /\ loop'[i].st # "none")
          => (loop'[i].pollCount = 0 /\ loop'[i].queries = 0)
       /\ BudgetExhausted(i)
          => (loop[i].queries = maxPolls /\ loop[i].pollCount = maxPolls - 1)
  /\ nSubmits' # nSubmits
     => /\ timer' = 0
        /\ results' = null
        /\ jobStatus' = null
        /\ net'.last = RunAgentRequest
        /\ nSubmits' \in sub'

C27_FreshBudget == [][C27_FreshBudgetStep]_vars

C27_Witness ==
  /\ nSubmits = 2
  /\ loop[1].st = "done"
  /\ loop[2].st = "fetch"
  /\ loop[2].queries = maxPolls
  /\ timer = 0
  /\ results = null


\* ------------------------------------------------ the pipeline panel alone
\* getAgentStatus reads isAnalyzing and jobStatus, the indicator also
\* results.  The panel is drawn in every state the three can be in together,
\* for every progress stage.
Stages == {"creating_agents", "running_analysis", "completed", "failed", "queued"}

\* Job records that leave the analysis running.
RunningJobStatuses ==
  {[status |-> "pending"], [status |-> "running", progress |-> null]} \cup
  {[status |-> "running", progress |-> [stage |-> s]] : s \in Stages}

FailedJobStatuses ==
  {[status |-> "failed", error |-> "Agent crashed"], [status |-> "failed"]}

CompletedJobStatuses ==
  {[status |-> "completed", target |-> "Slack", result |-> r] : r \in ResultObjects}

\* isAnalyzing, jobStatus and results: before the first submission, during
\* an analysis, and after a timed-out, a failed and a completed one.
PanelStates ==
  {[isAnalyzing |-> FALSE, jobStatus |-> null, results |-> null]} \cup
  {[isAnalyzing |-> TRUE, jobStatus |-> js, results |-> null] :
     js \in {null} \cup RunningJobStatuses} \cup
  {[isAnalyzing |-> FALSE, jobStatus |-> js, results |-> TimeoutResult] :
     js \in RunningJobStatuses} \cup
  {[isAnalyzing |-> FALSE, jobStatus |-> js, results |-> FailedResult(js)] :
     js \in FailedJobStatuses} \cup
  {[isAnalyzing |-> FALSE, jobStatus |-> js, results |-> SuccessResult(js)] :
     js \in CompletedJobStatuses}

PanelInit ==
  /\ mounted = TRUE
  /\ \E s \in PanelStates :
       /\ isAnalyzing = s.isAnalyzing
       /\ jobStatus = s.jobStatus
       /\ results = s.results
  /\ timer \in (IF results = null /\ ~isAnalyzing THEN {0} ELSE 0..MaxTimer)
  /\ currentJobId = nullStr
  /\ nSubmits = 0
  /\ sub = {}
  /\ loop = [i \in Invocations |-> NoLoop]
  /\ lastSubmit = NoResponse
  /\ lastPoll = NoPoll
  /\ net = [last |-> NoRequest, posts |-> 0]
  /\ jobs = [id \in BackendIds |-> NoJob]
  /\ nextId = 1
  /\ task = [id \in BackendIds |-> "idle"]
  /\ seen = [r \in Readers |-> [id \in BackendIds |-> "none"]]
  /\ reply = NoReply
  /\ rendered = NoRender

\* agents.map(...): one row per agent with its status indicator.
Render ==
  /\ mounted
  /\ rendered' = [done |-> TRUE,
                  status |-> [index \in AgentIndexes |-> getAgentStatus(index)],
                  indicator |-> [index \in AgentIndexes |-> AgentIndicator(index)]]
  /\ UNCHANGED client
  /\ UNCHANGED backend

PanelNext == Render

PanelSpec == PanelInit /\ [][PanelNext]_vars

C29_TimerStep ==
  /\ timer' # timer
     => \/ timer' = timer + 1 /\ isAnalyzing /\ isAnalyzing' /\ nSubmits' = nSubmits
        \/ timer' = 0 /\ nSubmits' = nSubmits + 1 /\ isAnalyzing'
  /\ (~isAnalyzing /\ nSubmits' = nSubmits) => timer' = timer
  /\ (isAnalyzing /\ ~isAnalyzing') => timer' = timer

====
